---- MODULE Spec2Model ----
(***************************************************************************)
(* A model of the gojo.com PDF scraper: main, extractPDFLinks,             *)
(* urlToFilename, downloadPDF and the file helpers, in the three variants  *)
(* of the program kept in the repository:                                  *)
(*   "static"       src/main.go          (plain HTTP GET page fetch)       *)
(*   "chromeFatal"  src/unnamed/part_001 (chromedp fetch, log.Fatalln)     *)
(*   "chrome"       src/unnamed/part_002 (chromedp fetch, log.Println)     *)
(* Text is a sequence of one-character strings, so that the regular        *)
(* expression, the URL parser and the file name derivation are computed    *)
(* character by character as the Go code computes them.                    *)
(***************************************************************************)
EXTENDS Integers, Sequences, FiniteSets, TLC

VARIABLES variant, pc, run, page, env, dirExists, cache, files, remoteHTML,
          links, idx, finalURL, filePath, buf, ret, calls, returns, gets,
          writes, fetches, endFiles

vars == <<variant, pc, run, page, env, dirExists, cache, files, remoteHTML,
          links, idx, finalURL, filePath, buf, ret, calls, returns, gets,
          writes, fetches, endFiles>>

----------------------------------------------------------------------------
(* Bounds of the model.                                                    *)

\* Number of consecutive executions of main that are explored.
MaxRuns == 2

\* Number of text fragments an arbitrary input text is built from.
MaxFrags == 3

\* Number of path segments an arbitrary input URL is built from.
MaxSegs == 2

----------------------------------------------------------------------------
(* Characters and strings.                                                 *)

\* Go's \s in RE2 syntax: [\t\n\f\r ].
Whitespace == {" ", "\t", "\n", "\f", "\r"}

\* The characters the classes [^\s"'<>] of pdfRegex leave out.
Excluded == Whitespace \cup {"\"", "'", "<", ">"}

UpperLetters == <<"A","B","C","D","E","F","G","H","I","J","K","L","M",
                  "N","O","P","Q","R","S","T","U","V","W","X","Y","Z">>

LowerLetters == <<"a","b","c","d","e","f","g","h","i","j","k","l","m",
                  "n","o","p","q","r","s","t","u","v","w","x","y","z">>

Digits == {"0","1","2","3","4","5","6","7","8","9"}

HexDigits == Digits \cup {"a","b","c","d","e","f","A","B","C","D","E","F"}

Range(s) == {s[i] : i \in DOMAIN s}

\* strings.ToLower on one character.
ToLowerChar(c) ==
  IF \E i \in DOMAIN UpperLetters : UpperLetters[i] = c
  THEN LowerLetters[CHOOSE i \in DOMAIN UpperLetters : UpperLetters[i] = c]
  ELSE c

\* strings.ToLower.
ToLower(s) == [i \in DOMAIN s |-> ToLowerChar(s[i])]

\* The suffix of s from position i on (s[i:] in Go, 1-based here).
From(s, i) == IF i > Len(s) THEN <<>> ELSE SubSeq(s, i, Len(s))

\* Whether s has t at position i.
HasAt(s, i, t) ==
  /\ i + Len(t) - 1 <= Len(s)
  /\ \A k \in DOMAIN t : s[i + k - 1] = t[k]

\* The first position >= i of s holding a character of set cs, or 0.
RECURSIVE IndexFrom(_, _, _)
IndexFrom(s, i, cs) ==
  IF i > Len(s) THEN 0
  ELSE IF s[i] \in cs THEN i
  ELSE IndexFrom(s, i + 1, cs)

\* The last position of s holding a character of set cs, or 0.
RECURSIVE LastIndex(_, _, _)
LastIndex(s, i, cs) ==
  IF i < 1 THEN 0
  ELSE IF s[i] \in cs THEN i
  ELSE LastIndex(s, i - 1, cs)

\* strings.ReplaceAll(s, old, new) for one-character old and new.
ReplaceAll(s, old, new) == [i \in DOMAIN s |-> IF s[i] = old THEN new ELSE s[i]]

\* strings.Split(s, "\n"): the lines of s; a text with n line feeds has n + 1.
RECURSIVE SplitLines(_)
SplitLines(s) ==
  LET nl == IndexFrom(s, 1, {"\n"})
  IN  IF nl = 0 THEN <<s>>
      ELSE <<SubSeq(s, 1, nl - 1)>> \o SplitLines(From(s, nl + 1))

----------------------------------------------------------------------------
\* pdfRegex: the scheme http or https, ://, a lazy run of one or more
\* characters other than white space, quotes and angle brackets, the literal
\* .pdf, and optionally a ? with a greedy run of such characters.

LitHttp == <<"h","t","t","p">>

LitSlashes == <<":","/","/">>

LitDotPdf == <<".","p","d","f">>

\* The end (exclusive) of the lazy run [^\s"'<>]+? followed by \.pdf when the
\* run starts at p and has reached q: the first q > p with s[p..q-1] in the
\* class and ".pdf" at q; 0 when there is none.
RECURSIVE LazyRun(_, _, _)
LazyRun(s, p, q) ==
  IF q > Len(s) THEN 0
  ELSE IF q > p /\ HasAt(s, q, LitDotPdf) THEN q
  ELSE IF s[q] \in Excluded THEN 0
  ELSE LazyRun(s, p, q + 1)

\* The end (exclusive) of the greedy run [^\s"'<>]* starting at q.
RECURSIVE GreedyRun(_, _)
GreedyRun(s, q) ==
  IF q > Len(s) \/ s[q] \in Excluded THEN q ELSE GreedyRun(s, q + 1)

\* The rest of a match once the lazy run has ended at q (0: no match): the
\* literal .pdf and the optional query.
MatchTail(s, q) ==
  IF q = 0 THEN 0
  ELSE IF HasAt(s, q + 4, <<"?">>) THEN GreedyRun(s, q + 5)
  ELSE q + 4

\* A match from the :// expected at position a on.
MatchSlashes(s, a) ==
  IF ~HasAt(s, a, LitSlashes) THEN 0 ELSE MatchTail(s, LazyRun(s, a + 3, a + 3))

\* The end (exclusive) of the match of pdfRegex that starts at position i of
\* line s, or 0 when the expression does not match there.
MatchAt(s, i) ==
  IF ~HasAt(s, i, LitHttp) THEN 0
  ELSE IF HasAt(s, i + 4, <<"s">>) THEN MatchSlashes(s, i + 5)
  ELSE MatchSlashes(s, i + 4)

\* pdfRegex.FindAllString(line, -1): the successive non-overlapping leftmost
\* matches, scanning from position i.
RECURSIVE FindAllFrom(_, _)
FindAllFrom(s, i) ==
  IF i > Len(s) THEN <<>>
  ELSE LET e == MatchAt(s, i)
       IN  IF e = 0 THEN FindAllFrom(s, i + 1)
           ELSE <<SubSeq(s, i, e - 1)>> \o FindAllFrom(s, e)

FindAllString(line) == FindAllFrom(line, 1)

\* Every match of every line, in scan order, repeats included.
RECURSIVE AllMatchesOf(_)
AllMatchesOf(lines) ==
  IF lines = <<>> THEN <<>>
  ELSE FindAllString(Head(lines)) \o AllMatchesOf(Tail(lines))

AllMatches(htmlContent) == AllMatchesOf(SplitLines(htmlContent))

\* The loop body of extractPDFLinks without its seen-check: every match is
\* appended.
AppendAlways(acc, match) == Append(acc, match)

\* The loop body of extractPDFLinks: a match is appended unless already seen.
AppendUnseen(acc, match) ==
  IF match \in Range(acc) THEN acc ELSE Append(acc, match)

RECURSIVE FoldMatches(_, _)
FoldMatches(acc, ms) ==
  IF ms = <<>> THEN acc
  ELSE FoldMatches(AppendUnseen(acc, Head(ms)), Tail(ms))

\* extractPDFLinks(htmlContent).
extractPDFLinks(htmlContent) == FoldMatches(<<>>, AllMatches(htmlContent))

\* removeDuplicatesFromSlice(slice).
RECURSIVE DedupInto(_, _)
DedupInto(acc, slice) ==
  IF slice = <<>> THEN acc
  ELSE DedupInto(IF Head(slice) \in Range(acc) THEN acc ELSE Append(acc, Head(slice)),
                 Tail(slice))

removeDuplicatesFromSlice(slice) == DedupInto(<<>>, slice)

----------------------------------------------------------------------------
(* net/url as the program uses it: url.Parse (urlToFilename, and the URL   *)
(* parse inside http.Client.Get) and url.ParseRequestURI (isUrlValid).     *)

\* The printable ASCII characters, code 32 first (the grave accent, code 96,
\* is written as the token of its escape).
Ascii == <<" ", "!", "\"", "#", "$", "%", "&", "'", "(", ")", "*", "+",
           ",", "-", ".", "/", "0", "1", "2", "3", "4", "5", "6", "7",
           "8", "9", ":", ";", "<", "=", ">", "?", "@", "A", "B", "C",
           "D", "E", "F", "G", "H", "I", "J", "K", "L", "M", "N", "O",
           "P", "Q", "R", "S", "T", "U", "V", "W", "X", "Y", "Z", "[",
           "\\", "]", "^", "_", "%60", "a", "b", "c", "d", "e", "f", "g",
           "h", "i", "j", "k", "l", "m", "n", "o", "p", "q", "r", "s",
           "t", "u", "v", "w", "x", "y", "z", "{", "|", "}", "~">>

HexValue(c) ==
  CASE c \in Digits -> (CHOOSE n \in 0..9 : Ascii[n + 17] = c)
    [] c \in {"a","A"} -> 10
    [] c \in {"b","B"} -> 11
    [] c \in {"c","C"} -> 12
    [] c \in {"d","D"} -> 13
    [] c \in {"e","E"} -> 14
    [] OTHER -> 15

\* The character of byte h1 h2 (two hex digits); a byte outside printable
\* ASCII is kept as the opaque three-letter token of its escape.
Unhex(h1, h2) ==
  LET n == 16 * HexValue(h1) + HexValue(h2)
  IN  IF n >= 32 /\ n <= 126 THEN Ascii[n - 31]
      ELSE "%" \o ToLowerChar(h1) \o ToLowerChar(h2)

\* Whether every % of s starts a well-formed escape %XX (unescape's error
\* check, EscapeError).
RECURSIVE EscapesOK(_, _)
EscapesOK(s, i) ==
  IF i > Len(s) THEN TRUE
  ELSE IF s[i] = "%"
       THEN /\ i + 2 <= Len(s)
            /\ s[i + 1] \in HexDigits
            /\ s[i + 2] \in HexDigits
            /\ EscapesOK(s, i + 3)
       ELSE EscapesOK(s, i + 1)

\* unescape(s, encodePath) of a string whose escapes are well formed.
RECURSIVE Unescape(_, _)
Unescape(s, i) ==
  IF i > Len(s) THEN <<>>
  ELSE IF s[i] = "%" THEN <<Unhex(s[i + 1], s[i + 2])>> \o Unescape(s, i + 3)
  ELSE <<s[i]>> \o Unescape(s, i + 1)

\* The ASCII characters unescape rejects in a host (InvalidHostError).
HostForbidden == {" ", "#", "/", "?", "@", "\\", "^", "%60", "{", "|", "}"}

\* validOptionalPort on the part of the host from its last colon.
ValidOptionalPort(host) ==
  LET c == LastIndex(host, Len(host), {":"})
  IN  c = 0 \/ \A k \in (c + 1)..Len(host) : host[k] \in Digits

\* parseHost for a host that is not an IPv6 literal: the port is digits and
\* the host holds no escape below %80 and no forbidden character.
RECURSIVE HostEscapesOK(_, _)
HostEscapesOK(s, i) ==
  IF i > Len(s) THEN TRUE
  ELSE IF s[i] = "%"
       THEN /\ i + 2 <= Len(s)
            /\ s[i + 1] \in HexDigits
            /\ s[i + 2] \in HexDigits
            /\ HexValue(s[i + 1]) >= 8
            /\ HostEscapesOK(s, i + 3)
       ELSE s[i] \notin HostForbidden /\ HostEscapesOK(s, i + 1)

HostOK(host) == ValidOptionalPort(host) /\ HostEscapesOK(host, 1)

\* The part of s before the first character of set cs (all of s when there is
\* none), and the part after it (empty when there is none).
CutBefore(s, cs) ==
  IF IndexFrom(s, 1, cs) = 0 THEN s ELSE SubSeq(s, 1, IndexFrom(s, 1, cs) - 1)

CutAfter(s, cs) ==
  IF IndexFrom(s, 1, cs) = 0 THEN <<>> ELSE From(s, IndexFrom(s, 1, cs) + 1)

\* The part of s from the first character of set cs on (empty when none).
FromFirst(s, cs) ==
  IF IndexFrom(s, 1, cs) = 0 THEN <<>> ELSE From(s, IndexFrom(s, 1, cs))

\* parseAuthority: the host is what follows the last @ of the authority.
HostOf(authority) == From(authority, LastIndex(authority, Len(authority), {"@"}) + 1)

\* The URL value, or the error, for a host, an escaped path, a query and a
\* fragment: parseHost, setPath and setFragment each may fail.
Assemble(host, rawPath, query, frag) ==
  IF HostOK(host) /\ EscapesOK(rawPath, 1) /\ EscapesOK(frag, 1)
  THEN [ok |-> TRUE, Host |-> Unescape(host, 1), Path |-> Unescape(rawPath, 1),
        RawQuery |-> query]
  ELSE [ok |-> FALSE, Host |-> <<>>, Path |-> <<>>, RawQuery |-> <<>>]

\* The authority (after the leading //) runs to the first slash; the path is
\* the rest.
ParseAuthority(auth0, query, frag) ==
  Assemble(HostOf(CutBefore(auth0, {"/"})), FromFirst(auth0, {"/"}), query, frag)

\* What follows the scheme's colon is cut at the first ? into the hierarchical
\* part and the raw query.
ParseRest(rest0, frag) ==
  ParseAuthority(From(CutBefore(rest0, {"?"}), 3), CutAfter(rest0, {"?"}), frag)

\* parse(rawURL, viaRequest) of net/url for a string that starts with the
\* scheme http: or https: followed by //, which every match of pdfRegex
\* does.  viaRequest = FALSE is url.Parse, which first cuts the fragment at
\* the first # and checks its escapes; viaRequest = TRUE is
\* url.ParseRequestURI, which takes # as an ordinary character.
ParseURL(rawURL, viaRequest) ==
  IF viaRequest
  THEN ParseRest(CutAfter(rawURL, {":"}), <<>>)
  ELSE ParseRest(CutAfter(CutBefore(rawURL, {"#"}), {":"}), CutAfter(rawURL, {"#"}))

\* isUrlValid(uri): url.ParseRequestURI returns no error.
isUrlValid(uri) == ParseURL(uri, TRUE).ok

\* filepath.Ext / getFileExtension: the suffix from the last dot of the last
\* path element, empty when that element has no dot.
getFileExtension(path) ==
  LET d == LastIndex(path, Len(path), {".", "/"})
  IN  IF d = 0 \/ path[d] = "/" THEN <<>> ELSE From(path, d)

\* invalidChars of urlToFilename, each replaced by an underscore.
invalidChars == {"\"", "\\", "/", ":", "*", "?", "<", ">", "|", "-"}

ReplaceInvalid(s) == [i \in DOMAIN s |-> IF s[i] \in invalidChars THEN "_" ELSE s[i]]

\* The name urlToFilename builds before sanitizing: the host, then the path
\* with its slashes replaced, then the query with its ampersands replaced.
JoinParts(parsed) ==
  parsed.Host
    \o (IF parsed.Path # <<>>
        THEN <<"_">> \o ReplaceAll(parsed.Path, "/", "_") ELSE <<>>)
    \o (IF parsed.RawQuery # <<>>
        THEN <<"_">> \o ReplaceAll(parsed.RawQuery, "&", "_") ELSE <<>>)

\* An extension check that ignores letter case.
EnsurePdfAnyCase(filename) ==
  IF getFileExtension(ToLower(filename)) # LitDotPdf THEN filename \o LitDotPdf ELSE filename

\* The .pdf suffix is added unless the extension is .pdf already.
EnsurePdf(filename) ==
  IF getFileExtension(filename) # LitDotPdf THEN filename \o LitDotPdf ELSE filename

FilenameOf(parsed) ==
  IF ~parsed.ok THEN <<>> ELSE ToLower(EnsurePdf(ReplaceInvalid(JoinParts(parsed))))

\* urlToFilename(rawURL): the empty name when url.Parse fails.
urlToFilename(rawURL) == FilenameOf(ParseURL(rawURL, FALSE))

----------------------------------------------------------------------------
(* The remote site and the environment.                                    *)

Variants == {"static", "chromeFatal", "chrome"}

\* Variants whose main validates each link with isUrlValid (and calls
\* removeDuplicatesFromSlice) before downloadPDF.
Validating == {"chromeFatal", "chrome"}

SchemeLower == <<"h","t","t","p","s",":","/","/">>

SchemeUpper == <<"H","T","T","P","S",":","/","/">>

HostX == <<"x",".","t","e","s","t">>

\* https://x.test/a.pdf
LinkA == SchemeLower \o HostX \o <<"/","a">> \o LitDotPdf

\* https://x.test/a.pdf?x=1
LinkAQ == LinkA \o <<"?","x","=","1">>

\* HTTPS://x.test/a.pdf?x=1
LinkUpperQ == SchemeUpper \o HostX \o <<"/","a">> \o LitDotPdf \o <<"?","x","=","1">>

\* http://x.test/%zz.pdf : matched by pdfRegex, rejected by both URL parsers.
LinkBadEscape == LitHttp \o LitSlashes \o HostX \o <<"/","%","z","z">> \o LitDotPdf

\* http://x.test/b.pdf?q=#%zz : accepted by url.ParseRequestURI, rejected
\* by url.Parse.
LinkBadFragment ==
  LitHttp \o LitSlashes \o HostX \o <<"/","b">> \o LitDotPdf \o <<"?","q","=","#","%","z","z">>

\* Three links on one line, the second one malformed.
PageThree == LinkA \o <<" ">> \o LinkBadEscape \o <<" ">> \o LinkAQ

\* A link, the same link with an upper-case scheme and a query, the first
\* link again, and a link with a malformed fragment, one per line.
PageMixed ==
  <<"<","a"," ","h","r","e","f","=","\"">> \o LinkA \o <<"\"",">","\n">>
    \o LinkUpperQ \o <<"\n">> \o LinkA \o <<"\n">> \o LinkBadFragment

\* https://x.test/a-b.pdf
LinkDash == SchemeLower \o HostX \o <<"/","a","-","b">> \o LitDotPdf

\* https://x.test/a_b.pdf
LinkUnder == SchemeLower \o HostX \o <<"/","a","_","b">> \o LitDotPdf

\* Two links that differ in - versus _ only.
PageAlike == LinkDash \o <<" ">> \o LinkUnder

Pages == {PageThree, PageMixed, PageAlike}

\* The body the site sends with a 404 status.
ErrorPage == <<"N","o","t"," ","F","o","u","n","d">>

\* What the page request meets: a transport error, a 404 response, a 200
\* response whose body read fails half way, a 200 response read in full.
PageKinds == {"neterr", "s404", "readerr", "ok"}

\* What appending to the cache file meets.
CacheKinds == {"openfail", "writefail", "closefail", "ok"}

\* What one download meets: a transport error, a 404 response, a 200
\* response of type text/html, a 200 application/pdf response whose body read
\* fails, one with an empty body, and a good response followed by a failing
\* os.Create, a failing write, or no failure.
DlKinds == {"neterr", "s404", "html", "readerr", "empty",
            "createfail", "writefail", "ok"}

\* The body a link's 200 application/pdf response carries.
Body(link) == <<"%PDF">> \o link

\* The environment before anything was asked of it; each outcome is fixed
\* the first time it is met and stays as long as the environment is unchanged.
EnvUnset == [page |-> "unset", mkdir |-> "unset", cache |-> "unset", dl |-> <<>>]

NoRet == [kind |-> "none", flag |-> FALSE]

\* fileExists(filePath) for a path in the output folder; the empty file name
\* joins to the folder itself, which is a directory.
fileExists(path) == path # <<>> /\ path \in DOMAIN files

\* The first half of a byte sequence: what a failed read or write got through.
FirstHalf(s) == SubSeq(s, 1, Len(s) \div 2)

----------------------------------------------------------------------------
(* main and downloadPDF.                                                   *)

Init ==
  /\ variant \in Variants
  /\ page \in Pages
  /\ pc = "start"
  /\ run = 1
  /\ env = EnvUnset
  /\ dirExists = FALSE
  /\ cache = [exists |-> FALSE, content |-> <<>>]
  /\ files = <<>>
  /\ remoteHTML = <<>>
  /\ links = <<>>
  /\ idx = 1
  /\ finalURL = <<>>
  /\ filePath = <<>>
  /\ buf = <<>>
  /\ ret = NoRet
  /\ calls = <<>>
  /\ returns = <<>>
  /\ gets = {}
  /\ writes = {}
  /\ fetches = <<>>
  /\ endFiles = <<>>

\* The end of a run of main: normal return, panic or log.Fatalln.
EndRun(how) ==
  /\ pc' = how
  /\ endFiles' = Append(endFiles, [how |-> how, files |-> files])

\* directoryExists / createDirectory: a failed os.Mkdir is logged only.
EnsureDir ==
  /\ pc = "start"
  /\ pc' = "cache"
  /\ IF dirExists
     THEN UNCHANGED <<dirExists, env>>
     ELSE \E k \in {"ok", "fail"} :
            /\ env.mkdir \in {"unset", k}
            /\ env' = [env EXCEPT !.mkdir = k]
            /\ dirExists' = (k = "ok")
  /\ UNCHANGED <<variant, run, page, cache, files, remoteHTML, links, idx,
                 finalURL, filePath, buf, ret, calls, returns, gets, writes,
                 fetches, endFiles>>

\* getDataFromURL: no error return ends the function, no status is checked;
\* a failed http.Get leaves response nil and response.Body panics.
getDataFromURL(k) ==
  CASE k = "s404" -> ErrorPage
    [] k = "readerr" -> FirstHalf(page)
    [] OTHER -> page

\* scrapePageHTMLWithChrome: the empty string when chromedp.Run fails, else
\* the outer HTML of whatever document the browser loaded.
scrapePageHTMLWithChrome(k) ==
  CASE k \in {"neterr", "readerr"} -> <<>>
    [] k = "s404" -> ErrorPage
    [] OTHER -> page

\* A check of the cache file that never finds it.
LocalFileNeverFound == FALSE

\* fileExists(localFileName): whether main finds the cache file.
localFileExists == cache.exists

\* main when fileExists(localFileName) is false: fetch the page.
FetchPage ==
  /\ pc = "cache"
  /\ ~localFileExists
  /\ \E k \in PageKinds :
       /\ env.page \in {"unset", k}
       /\ env' = [env EXCEPT !.page = k]
       /\ fetches' = Append(fetches, <<run, k>>)
       /\ IF variant = "static"
          THEN IF k = "neterr"
               THEN /\ UNCHANGED remoteHTML
                    /\ EndRun("panic")
               ELSE /\ remoteHTML' = getDataFromURL(k)
                    /\ pc' = "append"
                    /\ UNCHANGED endFiles
          ELSE /\ remoteHTML' = scrapePageHTMLWithChrome(k)
               /\ pc' = "append"
               /\ UNCHANGED endFiles
  /\ UNCHANGED <<variant, run, page, dirExists, cache, files, links, idx,
                 finalURL, filePath, buf, ret, calls, returns, gets, writes>>

\* main when the cache file exists: no fetch.
SkipFetch ==
  /\ pc = "cache"
  /\ localFileExists
  /\ pc' = "read"
  /\ UNCHANGED <<variant, run, page, env, dirExists, cache, files, remoteHTML,
                 links, idx, finalURL, filePath, buf, ret, calls, returns,
                 gets, writes, fetches, endFiles>>

\* What the program appends: the bytes (static) or the string and a line feed.
AppendedData == IF variant = "static" THEN remoteHTML ELSE remoteHTML \o <<"\n">>

\* appendByteToFile (static) and appendAndWriteToFile (chrome variants): the
\* file is opened with O_APPEND|O_CREATE; an error is logged (static, chrome)
\* or ends the process with log.Fatalln (chromeFatal).
AppendToCache ==
  /\ pc = "append"
  /\ \E k \in CacheKinds :
       /\ env.cache \in {"unset", k}
       /\ env' = [env EXCEPT !.cache = k]
       /\ cache' = CASE k = "openfail" -> cache
                     [] k = "writefail" -> [cache EXCEPT !.exists = TRUE]
                     [] OTHER -> [exists |-> TRUE,
                                  content |-> cache.content \o AppendedData]
       /\ IF variant = "chromeFatal" /\ k # "ok"
          THEN EndRun("fatal")
          ELSE pc' = "read" /\ UNCHANGED endFiles
  /\ UNCHANGED <<variant, run, page, dirExists, files, remoteHTML, links, idx,
                 finalURL, filePath, buf, ret, calls, returns, gets, writes,
                 fetches>>

\* Extraction fed with the result of the fetch instead of the cache file.
ReadFetched == remoteHTML

\* readAFileAsString: the content, or the empty string when os.ReadFile fails.
readAFileAsString == IF cache.exists THEN cache.content ELSE <<>>

\* The link list main loops over.
LinkList(content) ==
  IF variant \in Validating
  THEN removeDuplicatesFromSlice(extractPDFLinks(content))
  ELSE extractPDFLinks(content)

\* main: read the cache file and extract the links.
ReadExtract ==
  /\ pc = "read"
  /\ links' = LinkList(readAFileAsString)
  /\ idx' = 1
  /\ pc' = "loop"
  /\ UNCHANGED <<variant, run, page, env, dirExists, cache, files, remoteHTML,
                 finalURL, filePath, buf, ret, calls, returns, gets, writes,
                 fetches, endFiles>>

----------------------------------------------------------------------------
(* The download loop.                                                      *)

\* http.StatusOK.
StatusOK == 200

\* Content types that contain "application/pdf".
PdfTypes == {"application/pdf", "application/pdf; charset=binary"}

\* The response of the site for a link under outcome k.
Response(k, link) ==
  [err |-> k = "neterr",
   status |-> IF k = "s404" THEN 404 ELSE StatusOK,
   ctype |-> CASE k = "html" -> "text/html"
               [] k = "s404" -> "text/html"
               [] k = "ok" -> "application/pdf; charset=binary"
               [] OTHER -> "application/pdf",
   readerr |-> k = "readerr",
   body |-> IF k = "empty" THEN <<>> ELSE Body(link)]

\* The checks of downloadPDF between the GET and os.Create, without the
\* zero-byte check.
ChecksWithoutZero(resp) ==
  /\ ~resp.err
  /\ resp.status = StatusOK
  /\ resp.ctype \in PdfTypes
  /\ ~resp.readerr

\* The checks of downloadPDF between the GET and os.Create: no transport
\* error, status 200, a content type containing application/pdf, the body
\* read without error, and more than zero bytes read.
PassesChecks(resp) ==
  /\ ~resp.err
  /\ resp.status = StatusOK
  /\ resp.ctype \in PdfTypes
  /\ ~resp.readerr
  /\ Len(resp.body) # 0

\* A skip that reports success.
SkipFlagTrue == TRUE

\* The flag downloadPDF returns when the file already exists.
SkipFlag == FALSE

\* A loop that gives up at the first download that returns false.
StopOnFailure(i, flag) == IF flag THEN i + 1 ELSE Len(links) + 1

\* The range loop of main: the next index, whatever downloadPDF returned.
AfterReturn(i, flag) == i + 1

\* downloadPDF returning to the loop of main.
Return(kind, flag) ==
  /\ ret' = [kind |-> kind, flag |-> flag]
  /\ returns' = Append(returns, [url |-> links[idx], kind |-> kind, flag |-> flag])
  /\ idx' = AfterReturn(idx, flag)
  /\ pc' = "loop"

\* main: a link that isUrlValid rejects is passed over (chrome variants).
SkipInvalid ==
  /\ pc = "loop"
  /\ idx <= Len(links)
  /\ variant \in Validating
  /\ ~isUrlValid(links[idx])
  /\ idx' = idx + 1
  /\ UNCHANGED <<variant, pc, run, page, env, dirExists, cache, files,
                 remoteHTML, links, finalURL, filePath, buf, ret, calls,
                 returns, gets, writes, fetches, endFiles>>

\* Whether main passes links[idx] to downloadPDF.
Passed(url) == variant \in Validating => isUrlValid(url)

\* downloadPDF: the file name is derived and a file is found at the path.
DownloadSkip ==
  /\ pc = "loop"
  /\ idx <= Len(links)
  /\ Passed(links[idx])
  /\ finalURL' = links[idx]
  /\ filePath' = urlToFilename(links[idx])
  /\ fileExists(filePath')
  /\ calls' = Append(calls, links[idx])
  /\ Return("skip", SkipFlag)
  /\ UNCHANGED <<variant, run, page, env, dirExists, cache, files, remoteHTML,
                 links, buf, gets, writes, fetches, endFiles>>

\* downloadPDF: the file name is derived and no file is found at the path.
DownloadStart ==
  /\ pc = "loop"
  /\ idx <= Len(links)
  /\ Passed(links[idx])
  /\ finalURL' = links[idx]
  /\ filePath' = urlToFilename(links[idx])
  /\ ~fileExists(filePath')
  /\ calls' = Append(calls, links[idx])
  /\ buf' = <<>>
  /\ ret' = NoRet
  /\ pc' = "dl_get"
  /\ UNCHANGED <<variant, run, page, env, dirExists, cache, files, remoteHTML,
                 links, idx, returns, gets, writes, fetches, endFiles>>

\* Outcomes client.Get can have for a URL: http.NewRequest fails on a URL
\* that url.Parse rejects or that has no host.
GetKinds(url) ==
  IF ~ParseURL(url, FALSE).ok \/ ParseURL(url, FALSE).Host = <<>>
  THEN {"neterr"}
  ELSE DlKinds

\* downloadPDF: client.Get, the status and content type checks, the read of
\* the body into the buffer and the zero-byte check.
DownloadGet ==
  /\ pc = "dl_get"
  /\ \E k \in GetKinds(finalURL) :
       /\ finalURL \in DOMAIN env.dl => env.dl[finalURL] = k
       /\ env' = [env EXCEPT !.dl = (finalURL :> k) @@ env.dl]
       /\ gets' = gets \cup {<<run, finalURL>>}
       /\ IF PassesChecks(Response(k, finalURL))
          THEN /\ buf' = Response(k, finalURL).body
               /\ pc' = "dl_create"
               /\ UNCHANGED <<ret, returns, idx>>
          ELSE /\ buf' = <<>>
               /\ Return("fail", FALSE)
  /\ UNCHANGED <<variant, run, page, dirExists, cache, files, remoteHTML,
                 links, finalURL, filePath, calls, writes, fetches, endFiles>>

\* downloadPDF: os.Create(filePath); it fails when the output folder is
\* missing, when the path is the folder itself, or for a reason of its own.
DownloadCreate ==
  /\ pc = "dl_create"
  /\ IF ~dirExists \/ filePath = <<>> \/ env.dl[finalURL] = "createfail"
     THEN /\ Return("fail", FALSE)
          /\ UNCHANGED <<files, writes>>
     ELSE /\ files' = (filePath :> <<>>) @@ files
          /\ writes' = writes \cup {<<run, filePath>>}
          /\ pc' = "dl_write"
          /\ UNCHANGED <<ret, returns, idx>>
  /\ UNCHANGED <<variant, run, page, env, dirExists, cache, remoteHTML, links,
                 finalURL, filePath, buf, calls, gets, fetches, endFiles>>

\* downloadPDF: buf.WriteTo(out); a failed write leaves what it got through
\* in the file, which is not removed.
DownloadWrite ==
  /\ pc = "dl_write"
  /\ IF env.dl[finalURL] = "writefail"
     THEN /\ files' = (filePath :> FirstHalf(buf)) @@ files
          /\ Return("fail", FALSE)
     ELSE /\ files' = (filePath :> buf) @@ files
          /\ Return("ok", TRUE)
  /\ UNCHANGED <<variant, run, page, env, dirExists, cache, remoteHTML, links,
                 finalURL, filePath, buf, calls, gets, writes, fetches,
                 endFiles>>

\* main returns once the loop has gone through the link list.
MainReturn ==
  /\ pc = "loop"
  /\ idx > Len(links)
  /\ EndRun("done")
  /\ UNCHANGED <<variant, run, page, env, dirExists, cache, files, remoteHTML,
                 links, idx, finalURL, filePath, buf, ret, calls, returns,
                 gets, writes, fetches>>

Ended == pc \in {"done", "panic", "fatal"}

\* The program is started again on the file system the last run left.
Restart ==
  /\ run' = run + 1
  /\ pc' = "start"
  /\ remoteHTML' = <<>>
  /\ links' = <<>>
  /\ idx' = 1
  /\ finalURL' = <<>>
  /\ filePath' = <<>>
  /\ buf' = <<>>
  /\ ret' = NoRet
  /\ calls' = <<>>
  /\ returns' = <<>>
  /\ UNCHANGED <<variant, page, dirExists, cache, files, gets, writes,
                 fetches, endFiles>>

\* The next run, against an unchanged site and environment.
NextRun ==
  /\ Ended
  /\ run < MaxRuns
  /\ Restart
  /\ UNCHANGED env

\* The next run, after the site's responses and the failures of the
\* environment may have changed.
NextRunChanged ==
  /\ Ended
  /\ run < MaxRuns
  /\ env # EnvUnset
  /\ Restart
  /\ env' = EnvUnset

Step ==
  \/ EnsureDir
  \/ FetchPage
  \/ SkipFetch
  \/ AppendToCache
  \/ ReadExtract
  \/ SkipInvalid
  \/ DownloadSkip
  \/ DownloadStart
  \/ DownloadGet
  \/ DownloadCreate
  \/ DownloadWrite
  \/ MainReturn

Next == Step \/ NextRun \/ NextRunChanged

\* Runs of main one after the other; the environment may change in between.
Spec == Init /\ [][Next]_vars

NextSteady == Step \/ NextRun

\* Runs of main one after the other against an unchanged site and environment.
SpecSteady == Init /\ [][NextSteady]_vars

----------------------------------------------------------------------------
(* extractPDFLinks and removeDuplicatesFromSlice on arbitrary texts.       *)

\* What the texts are built from: links, and a bare .pdf, each followed by a
\* line feed, a space or nothing.
Pieces == {LinkA, LinkUpperQ, LinkAQ, LitDotPdf}

Separators == {<<"\n">>, <<" ">>, <<>>}

Fragments == {p \o sep : p \in Pieces, sep \in Separators}

RECURSIVE TextsOfLen(_)
TextsOfLen(n) ==
  IF n = 0 THEN {<<>>}
  ELSE {t \o f : t \in TextsOfLen(n - 1), f \in Fragments}

Texts == UNION {TextsOfLen(n) : n \in 0..MaxFrags}

\* The cache file holds an arbitrary text and main is about to read it.
InitExtract ==
  /\ variant = "static"
  /\ page = <<>>
  /\ pc = "read"
  /\ run = 1
  /\ env = EnvUnset
  /\ dirExists = TRUE
  /\ cache \in {[exists |-> TRUE, content |-> t] : t \in Texts}
  /\ files = <<>>
  /\ remoteHTML = <<>>
  /\ links = <<>>
  /\ idx = 1
  /\ finalURL = <<>>
  /\ filePath = <<>>
  /\ buf = <<>>
  /\ ret = NoRet
  /\ calls = <<>>
  /\ returns = <<>>
  /\ gets = {}
  /\ writes = {}
  /\ fetches = <<>>
  /\ endFiles = <<>>

\* extractPDFLinks applied to the content of the cache file.
Extract ==
  /\ pc = "read"
  /\ links' = extractPDFLinks(readAFileAsString)
  /\ pc' = "extracted"
  /\ UNCHANGED <<variant, run, page, env, dirExists, cache, files, remoteHTML,
                 idx, finalURL, filePath, buf, ret, calls, returns, gets,
                 writes, fetches, endFiles>>

\* removeDuplicatesFromSlice applied to the extracted list.
Dedupe ==
  /\ pc = "extracted"
  /\ links' = removeDuplicatesFromSlice(links)
  /\ pc' = "deduped"
  /\ UNCHANGED <<variant, run, page, env, dirExists, cache, files, remoteHTML,
                 idx, finalURL, filePath, buf, ret, calls, returns, gets,
                 writes, fetches, endFiles>>

NextExtract == Extract \/ Dedupe

SpecExtract == InitExtract /\ [][NextExtract]_vars

----------------------------------------------------------------------------
(* Properties.                                                             *)

\* The response the site gave to the last GET for finalURL.
LastResponse == Response(env.dl[finalURL], finalURL)

\* downloadPDF was entered for finalURL with no file at the derived path, a
\* response arrived, and the call has returned.
ReturnedAfterResponse ==
  /\ ret.kind \in {"fail", "ok"}
  /\ finalURL \in DOMAIN env.dl
  /\ ~LastResponse.err

\* A response with a status other than 200, or a content type without
\* application/pdf, or an empty body.
Rejected(resp) ==
  \/ resp.status # StatusOK
  \/ resp.ctype \notin PdfTypes
  \/ (~resp.readerr /\ Len(resp.body) = 0)

\* C1: when downloadPDF is called with no file at the derived path and the
\* response has a status other than 200, or a content type that does not
\* contain application/pdf, or an accepted status and type with a body of zero
\* bytes, then after the call no file exists at the derived path and the call
\* has returned false.
C1_RejectedResponseNotWritten ==
  (ReturnedAfterResponse /\ Rejected(LastResponse))
    => (ret.flag = FALSE /\ ~fileExists(filePath))

\* A call that met a 200 application/pdf response with an empty body has
\* returned.
C1_Witness ==
  /\ ReturnedAfterResponse
  /\ LastResponse.status = StatusOK
  /\ LastResponse.ctype \in PdfTypes
  /\ LastResponse.body = <<>>

\* The paths created in the output folder during run r, and the links a GET
\* was issued for during run r.
WrittenIn(r) == {w[2] : w \in {x \in writes : x[1] = r}}

RequestedIn(r) == {g[2] : g \in {x \in gets : x[1] = r}}

\* Run r + 1 left the output folder as run r left it, created no file in it,
\* and issued no GET for a link whose file run r wrote.
SecondRunAddsNothing(r) ==
  /\ endFiles[r + 1].files = endFiles[r].files
  /\ WrittenIn(r + 1) = {}
  /\ \A l \in RequestedIn(r + 1) : urlToFilename(l) \notin WrittenIn(r)

\* C2: when main is run twice in a row against an unchanged site and
\* environment, the files of the output folder after the second run are those
\* after the first, the second run creates no file in the output folder, and
\* it issues no GET for a link whose file the first run wrote.
C2_SecondRunIdempotent ==
  \A r \in 1..MaxRuns :
    r + 1 <= Len(endFiles) => SecondRunAddsNothing(r)

\* The same, for a first run that main returned from: this part holds in
\* every variant.
IdempotentAfterCompleteRun ==
  \A r \in 1..MaxRuns :
    (r + 1 <= Len(endFiles) /\ endFiles[r].how = "done")
      => SecondRunAddsNothing(r)

\* The links of s that main passes to downloadPDF, in order.
PassedLinks(s) == SelectSeq(s, Passed)

InLoop == pc \in {"loop", "dl_get", "dl_create", "dl_write", "done"}

InCall == pc \in {"dl_get", "dl_create", "dl_write"}

\* C3 as stated: once the loop has ended, a download attempt was started for
\* every link of the extracted list, in the list's order.
C3_EveryLinkAttempted == pc = "done" => calls = links

\* C3 amended: the loop starts a download attempt for every link of the list
\* that main passes to downloadPDF (every link in main.go, every link that
\* isUrlValid accepts in the chromedp variants), in the list's order, each
\* only after the previous attempt has returned, whatever the earlier
\* attempts returned.
C3_EveryPassedLinkAttemptedInOrder ==
  InLoop =>
    /\ calls = PassedLinks(SubSeq(links, 1, IF InCall THEN idx ELSE idx - 1))
    /\ Len(returns) = (IF InCall THEN Len(calls) - 1 ELSE Len(calls))
    /\ \A i \in DOMAIN returns : returns[i].url = calls[i]
    /\ pc = "done" => calls = PassedLinks(links)

\* A download attempt was started after an earlier attempt had failed.
C3_Witness ==
  \E i \in DOMAIN returns :
    /\ returns[i].kind = "fail"
    /\ i < Len(calls)

\* C4: no outcome of the page fetch, of the cache write or of a download ends
\* the run other than by main returning: the process neither panics nor
\* exits through log.Fatalln.
C4_NoAbort == pc \notin {"panic", "fatal"}

\* C5, for getDataFromURL: the result handed to the cache write is empty
\* unless the response was a 2xx response read without error.
C5_StaticFetchEmptyUnlessOK ==
  (variant = "static" /\ pc = "append" /\ remoteHTML # <<>>)
    => \E i \in DOMAIN fetches : fetches[i] = <<run, "ok">>

\* The position of the first occurrence of x in sequence m.
FirstPos(m, x) == CHOOSE i \in DOMAIN m : m[i] = x /\ \A j \in 1..(i - 1) : m[j] # x

NoDuplicates(s) == \A i, j \in DOMAIN s : s[i] = s[j] => i = j

\* The input of extractPDFLinks in the extraction specification.
Input == cache.content

\* C6: the list extractPDFLinks returns holds no string twice, holds exactly
\* the matches of the text, in the order of their first occurrence in the
\* scan of the lines, and removeDuplicatesFromSlice returns it unchanged.
C6_UniqueInFirstSeenOrder ==
  /\ pc = "extracted" =>
       /\ NoDuplicates(links)
       /\ Range(links) = Range(AllMatches(Input))
       /\ \A i, j \in DOMAIN links :
            i < j => FirstPos(AllMatches(Input), links[i])
                       < FirstPos(AllMatches(Input), links[j])
  /\ pc = "deduped" => links = extractPDFLinks(Input)

\* A text in which a match occurs again after a different match.
C6_Witness ==
  /\ pc = "deduped"
  /\ Len(links) >= 2
  /\ Len(AllMatches(Input)) > Len(links)

\* Texts that hold https://x.test/a.pdf, then HTTPS://x.test/a.pdf?x=1, then
\* the first link again, separated by a line feed or a space.
TwoLinksAndRepeat ==
  {LinkA \o s1 \o LinkUpperQ \o s2 \o LinkA :
     s1 \in {<<"\n">>, <<" ">>}, s2 \in {<<"\n">>, <<" ">>}}

\* C7: for such a text extractPDFLinks returns exactly the two links, the
\* lower-case one first.
C7_UpperCaseSchemeExtracted ==
  (pc = "extracted" /\ Input \in TwoLinksAndRepeat)
    => links = <<LinkA, LinkUpperQ>>

\* C8 as stated: the flag returned for a skipped link is the flag of a
\* successful download and differs from the flag of a failed one.
C8_SkipFlagIsSuccessFlag ==
  \A i, j \in DOMAIN returns :
    returns[i].kind = "skip" =>
      /\ returns[j].kind = "ok" => returns[j].flag = returns[i].flag
      /\ returns[j].kind = "fail" => returns[j].flag # returns[i].flag

\* C8 amended: when a file exists at the derived path downloadPDF skips the
\* link without a request and returns false, the flag of a failed download,
\* which differs from the true of a successful one.
C8_SkipFlagIsFailureFlag ==
  \A i, j \in DOMAIN returns :
    returns[i].kind = "skip" =>
      /\ returns[i].flag = FALSE
      /\ returns[j].kind = "fail" => returns[j].flag = returns[i].flag
      /\ returns[j].kind = "ok" => returns[j].flag # returns[i].flag

\* One run in which a link was skipped, one failed and one was downloaded.
C8_Witness ==
  \E i, j, k \in DOMAIN returns :
    /\ returns[i].kind = "skip"
    /\ returns[j].kind = "ok"
    /\ returns[k].kind = "fail"

\* C9: every link passed to downloadPDF is one that isUrlValid accepts.
C9_OnlyValidLinksDownloaded == \A i \in DOMAIN calls : isUrlValid(calls[i])

\* C10: outside the step between os.Create and the write, every file of the
\* output folder holds the complete, non-empty body of a response that was
\* received: no empty or truncated file is left.
C10_NoTruncatedFileLeft ==
  pc # "dl_write" =>
    \A p \in DOMAIN files :
      /\ files[p] # <<>>
      /\ \E g \in gets : urlToFilename(g[2]) = p /\ files[p] = Body(g[2])


\* The run has fetched the page.
FetchedIn(r) == \E i \in DOMAIN fetches : fetches[i][1] = r

\* What os.ReadFile gives for the cache file as it is now.
CacheText == IF cache.exists THEN cache.content ELSE <<>>

\* The step in which main evaluates fileExists(localFileName).
CacheChecked == pc = "cache" /\ pc' # "cache"

\* The step issues a page fetch.
FetchIssued == Len(fetches') > Len(fetches)

\* C11, as a condition on every step: the fetch is issued at the check of the
\* cache file and exactly when the file is missing there, at most once in a
\* run, and a cache file that exists is never changed.
FetchOnlyWhenCacheMissing ==
  /\ CacheChecked => (FetchIssued <=> ~cache.exists)
  /\ FetchIssued => (CacheChecked /\ ~FetchedIn(run) /\ Len(fetches') = Len(fetches) + 1)
  /\ cache.exists => cache' = cache

\* C11, on every state of the download loop: the link list is what the
\* cache file gives, whatever the fetch returned.
LinksReadFromCache == pc \in {"loop", "dl_get", "dl_create", "dl_write"} => links = LinkList(CacheText)

\* C11: in one run the page is fetched if and only if the cache file is
\* missing when main checks it, and at most once; a cache file that exists is
\* neither fetched over nor changed; the links are extracted from the cache
\* file, never from the fetched result itself.
C11_FetchIffCacheMissing == [][FetchOnlyWhenCacheMissing]_vars /\ []LinksReadFromCache

\* Run 1 fetched the page and returned, run 2 found the cache file, fetched
\* nothing and extracted links from it.
C11_Witness ==
  /\ run = 2
  /\ pc = "loop"
  /\ endFiles[1].how = "done"
  /\ links # <<>>
  /\ FetchedIn(1)
  /\ ~FetchedIn(2)

\* The fetch returned a page with links, the cache file could not be opened,
\* and no link was extracted.
FetchedButNothingCached == pc = "loop" /\ extractPDFLinks(remoteHTML) # <<>> /\ ~cache.exists /\ links = <<>>


\* n copies of a text, one after the other.
RECURSIVE Copies(_, _)
Copies(n, t) == IF n = 0 THEN <<>> ELSE Copies(n - 1, t) \o t

\* What a run persists of a fetch with outcome k when the append succeeds.
Persisted(k) ==
  IF variant = "static" THEN getDataFromURL(k)
  ELSE scrapePageHTMLWithChrome(k) \o <<"\n">>

\* C12: the fetched page is persisted by appending and every run adds a copy
\* of it: when run n has returned, with the page fetched without failure and
\* written to the cache file, and every run so far has returned from main,
\* the cache file holds n copies of the page.
C12_NCopiesAfterNRuns ==
  (pc = "done" /\ cache.content # <<>> /\ env.cache = "ok"
   /\ (\A r \in DOMAIN endFiles : endFiles[r].how = "done")
   /\ (\A i \in DOMAIN fetches : fetches[i][2] = "ok"))
    => cache.content = Copies(run, Persisted("ok"))

\* C12, amended: the cache file holds nothing or exactly one persisted
\* fetch result, however many runs there were.
C12_AtMostOneCopy ==
  /\ ~cache.exists => cache.content = <<>>
  /\ cache.exists => \/ cache.content = <<>>
                     \/ \E k \in PageKinds : cache.content = Persisted(k)

\* The second run has returned and the cache file still holds the one copy
\* of the page that the first run persisted.
C12_Witness ==
  /\ run = 2
  /\ pc = "done"
  /\ endFiles[1].how = "done"
  /\ fetches = << <<1, "ok">> >>
  /\ page # <<>>
  /\ cache.content = Persisted("ok")


----------------------------------------------------------------------------
(* urlToFilename on arbitrary URLs.                                        *)

\* What the URLs are built from: a scheme, a host (with upper-case letters,
\* with a port, or empty), path segments and a query or a fragment.
UrlSchemes == {LitHttp \o LitSlashes, SchemeLower}

UrlHosts == {HostX, <<"X",".","T","e","s","t",":","8","0">>, <<>>}

UrlSegments ==
  {<<"/","a">> \o LitDotPdf, <<"/","A",".","P","D","F">>, <<"/","a","-","b">>,
   <<"/","d","*">>, <<"/","%","z","z">>, <<"/","e","%","3","A">>}

UrlTails ==
  {<<>>, <<"?","x","=","1","&","y","=","2">>, <<"?","q","=","A",".","P","D","F">>,
   <<"?","v","=","a">> \o LitDotPdf, <<"#","f">>}

RECURSIVE PathsOfLen(_)
PathsOfLen(n) ==
  IF n = 0 THEN {<<>>}
  ELSE {p \o g : p \in PathsOfLen(n - 1), g \in UrlSegments}

UrlPaths == UNION {PathsOfLen(n) : n \in 0..MaxSegs}

Urls == {sc \o h \o p \o t : sc \in UrlSchemes, h \in UrlHosts, p \in UrlPaths, t \in UrlTails}

\* downloadPDF has been called with an arbitrary URL.
InitFilename ==
  /\ variant = "static"
  /\ page = <<>>
  /\ pc = "name"
  /\ run = 1
  /\ env = EnvUnset
  /\ dirExists = TRUE
  /\ cache = [exists |-> TRUE, content |-> <<>>]
  /\ files = <<>>
  /\ remoteHTML = <<>>
  /\ links = <<>>
  /\ idx = 1
  /\ finalURL \in Urls
  /\ filePath = <<>>
  /\ buf = <<>>
  /\ ret = NoRet
  /\ calls = <<>>
  /\ returns = <<>>
  /\ gets = {}
  /\ writes = {}
  /\ fetches = <<>>
  /\ endFiles = <<>>

\* downloadPDF: filename := urlToFilename(finalURL).
DeriveName ==
  /\ pc = "name"
  /\ filePath' = urlToFilename(finalURL)
  /\ pc' = "named"
  /\ UNCHANGED <<variant, run, page, env, dirExists, cache, files, remoteHTML,
                 links, idx, finalURL, buf, ret, calls, returns, gets, writes,
                 fetches, endFiles>>

NextFilename == DeriveName

SpecFilename == InitFilename /\ [][NextFilename]_vars

\* The characters the claim lists.
ListedChars == {"\"", "\\", "/", ":", "*", "?", "<", ">", "|", "-"}

\* Whether text s ends with text t.
EndsWith(s, t) == Len(s) >= Len(t) /\ SubSeq(s, Len(s) - Len(t) + 1, Len(s)) = t

\* The name built from host, path and query, before the suffix is added and
\* before lower-casing.
BuiltName == ReplaceInvalid(JoinParts(ParseURL(finalURL, FALSE)))

\* C13: for a URL that parses, the derived name has no upper-case letter and
\* none of the listed characters, ends with .pdf, and is the lower-cased
\* built name with .pdf added exactly when the built name does not end with
\* the extension .pdf in lower case.
C13_FilenameShape ==
  (pc = "named" /\ ParseURL(finalURL, FALSE).ok) =>
    /\ \A i \in DOMAIN filePath : filePath[i] \notin Range(UpperLetters) \cup ListedChars
    /\ EndsWith(filePath, LitDotPdf)
    /\ filePath = IF EndsWith(BuiltName, LitDotPdf)
                  THEN ToLower(BuiltName)
                  ELSE ToLower(BuiltName) \o LitDotPdf

\* A parsed URL whose built name has the extension .PDF got a second .pdf.
C13_Witness ==
  /\ pc = "named"
  /\ ParseURL(finalURL, FALSE).ok
  /\ EndsWith(BuiltName, <<".","P","D","F">>)
  /\ EndsWith(filePath, LitDotPdf \o LitDotPdf)


\* Outcomes of a download in which neither the transport nor the file system
\* fails: the site answers, and the file is created and written.
AnsweredKinds == {"s404", "html", "empty", "ok"}

\* The run met no transport or file system failure.
NoFailureMet ==
  /\ env.mkdir = "ok"
  /\ env.page = "ok"
  /\ env.cache = "ok"
  /\ \A u \in DOMAIN env.dl : env.dl[u] \in AnsweredKinds

\* The site answers a request for the link with status 200, a PDF content
\* type and the link's body: it did, or the link was never requested and
\* nothing in the run says otherwise.
AnswersWithPdf(link) == link \in DOMAIN env.dl => env.dl[link] = "ok"

\* C14: when the first run, started on an empty output folder and met by no
\* failure, has returned, every link of the link set that the site answers
\* with a PDF has its own body in the file at its derived path.
C14_EveryLinkHasItsOwnFile ==
  (run = 1 /\ pc = "done" /\ NoFailureMet) =>
    \A i \in DOMAIN links :
      AnswersWithPdf(links[i]) =>
        /\ fileExists(urlToFilename(links[i]))
        /\ files[urlToFilename(links[i])] = Body(links[i])


\* The page fetcher returned, and returned an empty result, in fetch f.
ReturnedEmpty(f) ==
  IF variant = "static"
  THEN f[2] # "neterr" /\ getDataFromURL(f[2]) = <<>>
  ELSE scrapePageHTMLWithChrome(f[2]) = <<>>

\* The cache file exists and every run after run r, up to the current one,
\* which has extracted no link, went without a fetch.
SuppressedAfter(r) ==
  /\ run > r
  /\ pc \in {"loop", "done"}
  /\ cache.exists
  /\ links = <<>>
  /\ \A q \in (r + 1)..run : ~FetchedIn(q)

\* Every run that has ended returned from main.
AllReturned == \A r \in DOMAIN endFiles : endFiles[r].how = "done"

\* C15: a fetch that returned an empty result does not suppress the fetch of
\* later runs: with every run returning from main and the empty result
\* persisted as it is, no later run finds the cache file left by that run,
\* goes without a fetch and extracts zero links.
C15_FailedFetchNotCached ==
  \A i \in DOMAIN fetches :
    (ReturnedEmpty(fetches[i]) /\ AllReturned /\ cache.content = Persisted(fetches[i][2]))
      => ~SuppressedAfter(fetches[i][1])

====
